---- MODULE Spec2Model ----
(***************************************************************************)
(* A state-machine model of tutorials/building_image_classifier.ipynb:     *)
(* the notebook's cells run top to bottom, the epoch driver loop, train(), *)
(* and test().  The Opacus library calls the notebook makes (the model     *)
(* inspector, the BatchNorm converter, the privacy engine's step and       *)
(* virtual_step) are not in the notebook; they are modelled from the       *)
(* notebook's prose and the specification.                                 *)
(***************************************************************************)
EXTENDS Integers, Sequences, FiniteSets, TLC

\* ---------------------------------------------------------------- bounds
MaxBatchSize == 2      \* BATCH_SIZE ranges over 1..MaxBatchSize
MaxVirtual == 4        \* VIRTUAL_BATCH_SIZE ranges over 1..MaxVirtual
MaxTrainSize == 3      \* len(train_dataset) ranges over 1..MaxTrainSize
MaxTestSize == 3       \* len(test_dataset) ranges over 1..MaxTestSize
MaxSeed == 0           \* the data seed ranges over 0..MaxSeed
MaxLayers == 4         \* layers of a model handed to the inspector
MaxExtra == 2          \* long loaders: batches beyond the report interval

\* ------------------------------------------------------ program constants
NUM_EPOCHS == 20       \* range(20) in the driver loop
REPORT_EVERY == 200    \* i % 200 == 0 in train()

VARIABLES
    BATCH_SIZE, VIRTUAL_BATCH_SIZE,  \* hyper-parameter cell
    trainSize, testSize, dataSeed,   \* len(train_dataset), len(test_dataset), data
    pc,                  \* the next cell / statement to run
    stages,              \* the cells completed so far, in order
    model,               \* the model's layers (a sequence of layer types)
    raised,              \* the exceptions raised so far, in order
    offending,           \* layers listed by the last IncompatibleModuleException
    validated,           \* inspector.validate(model) has returned True
    hasOptimizer,        \* optim.RMSprop(...) has been constructed
    attached,            \* privacy_engine.attach(optimizer) has run
    virtual_batch_rate,  \* int(VIRTUAL_BATCH_SIZE / BATCH_SIZE); 0 = not yet set
    epochIdx,            \* the driver's loop variable, range(20)
    trainCalls,          \* the epoch arguments train() was called with
    i,                   \* enumerate index inside train()
    seen,                \* batch indices fetched in the current train() call
    events,              \* the calls made in the current iteration, in order
    modelMode,           \* "train" after model.train(), "eval" after model.eval()
    grad,                \* batches whose gradient is in the current gradient
    accum,               \* batches accumulated by virtual steps, not yet applied
    lastAgg,             \* batches aggregated by the last real step
    steps,               \* privacy engine: accounting steps
    noiseAdds,           \* privacy engine: noise additions
    updates,             \* optimizer: parameter updates
    optCalls,            \* optimizer.step() + optimizer.virtual_step() calls
    applied,             \* batch -> real steps that aggregated it, this train() call
    engineBatch,         \* the batch_size given to PrivacyEngine; 0 = no engine yet
    lossSum, lossesLen,  \* sum(losses), len(losses) inside train()
    accSum, top1Len,     \* sum(top1_acc) (a rational), len(top1_acc) in train()
    reportedAt,          \* iterations of the current train() call that printed
    lastReport,          \* the last printed training line
    queries,             \* get_privacy_spent calls
    testIdx,             \* test(): batches evaluated
    testAccSum,          \* test(): sum(top1_acc), a rational
    testCorrect,         \* test(): correctly classified samples (ghost)
    testSeen,            \* test(): samples evaluated (ghost)
    testCalls,           \* calls of test()
    top1_acc             \* the value returned by test(); <<>> = none

vars == <<BATCH_SIZE, VIRTUAL_BATCH_SIZE, trainSize, testSize, dataSeed, pc,
          stages, model, raised, offending, validated, hasOptimizer, attached,
          virtual_batch_rate, epochIdx, trainCalls, i, seen, events, modelMode,
          grad, accum, lastAgg, steps, noiseAdds, updates, optCalls, applied,
          engineBatch,
          lossSum, lossesLen, accSum, top1Len, reportedAt, lastReport, queries,
          testIdx, testAccSum, testCorrect, testSeen, testCalls, top1_acc>>

setupVars == <<BATCH_SIZE, VIRTUAL_BATCH_SIZE, trainSize, testSize, dataSeed>>
modelVars == <<model, offending, validated>>
optVars == <<grad, accum, lastAgg, steps, noiseAdds, updates, optCalls, applied,
             engineBatch>>
metricVars == <<lossSum, lossesLen, accSum, top1Len>>
reportVars == <<reportedAt, lastReport, queries>>
testVars == <<testIdx, testAccSum, testCorrect, testSeen, testCalls, top1_acc>>
loopVars == <<epochIdx, trainCalls, i, seen, events>>

\* ------------------------------------------------------------- rationals
\* Accuracies are fractions; a rational is <<numerator, denominator>> in
\* lowest terms with a positive denominator.
RECURSIVE GCD(_, _)
GCD(a, b) == IF b = 0 THEN a ELSE GCD(b, a % b)

Rat(n, d) == LET g == GCD(n, d) IN IF g = 0 THEN <<0, 1>> ELSE <<n \div g, d \div g>>

RatAdd(x, y) == Rat(x[1] * y[2] + y[1] * x[2], x[2] * y[2])

RatDivInt(x, n) == Rat(x[1], x[2] * n)

\* ------------------------------------------------------------ data loaders
\* len(DataLoader(dataset, batch_size=b)) with the default drop_last=False.
LoaderLen(size, b) == (size + b - 1) \div b

\* The number of samples in batch k of a loader over `size` samples.
BatchLen(size, b, k) ==
    IF k < LoaderLen(size, b) - 1 THEN b ELSE size - (LoaderLen(size, b) - 1) * b

\* loss.item() of batch k in epoch e: fixed by the data, the shuffle and the
\* parameters; its value never steers control flow.
BatchLoss(seed, e, k) == (seed + e + 2 * k) % 3

\* Correct predictions in training batch k of epoch e (out of n samples).
BatchCorrect(seed, e, k, n) == (seed + e + k) % (n + 1)

\* accuracy(preds, labels) == (preds == labels).mean()
accuracy(correct, n) == Rat(correct, n)

\* ------------------------------------------------------------------ model
Compatible == {"Conv2d", "GroupNorm", "Linear"}
LayerTypes == Compatible \cup {"BatchNorm2d", "Unsupported"}

\* models.resnet18(num_classes=10), abridged: convolutions followed by
\* BatchNorm layers, and a final fully connected layer.
ResNet18 == <<"Conv2d", "BatchNorm2d", "Conv2d", "BatchNorm2d", "Linear">>

\* The layers DPModelInspector reports as incompatible.
Incompatible(m) == {k \in 1..Len(m) : m[k] \notin Compatible}

\* DPModelInspector.validate(model): True, or IncompatibleModuleException.
validate(m) == Incompatible(m) = {}

\* module_modification.convert_batchnorm_modules(model)
convert_batchnorm_modules(m) ==
    [k \in 1..Len(m) |-> IF m[k] = "BatchNorm2d" THEN "GroupNorm" ELSE m[k]]

\* ------------------------------------------------------------------- Init
NoReport == [epoch |-> 0, i |-> -1, lossSum |-> 0, lossesLen |-> 0,
             accSum |-> <<0, 1>>, top1Len |-> 0, steps |-> 0]

InitRest ==
    /\ raised = <<>>
    /\ offending = {}
    /\ validated = FALSE
    /\ hasOptimizer = FALSE
    /\ attached = FALSE
    /\ virtual_batch_rate = 0
    /\ epochIdx = 0
    /\ trainCalls = <<>>
    /\ i = 0
    /\ seen = <<>>
    /\ events = <<>>
    /\ modelMode = "train"
    /\ grad = {}
    /\ accum = {}
    /\ lastAgg = {}
    /\ steps = 0
    /\ noiseAdds = 0
    /\ updates = 0
    /\ optCalls = 0
    /\ applied = <<>>
    /\ engineBatch = 0
    /\ lossSum = 0
    /\ lossesLen = 0
    /\ accSum = <<0, 1>>
    /\ top1Len = 0
    /\ reportedAt = {}
    /\ lastReport = NoReport
    /\ queries = 0
    /\ testIdx = 0
    /\ testAccSum = <<0, 1>>
    /\ testCorrect = 0
    /\ testSeen = 0
    /\ testCalls = 0
    /\ top1_acc = <<>>

\* The state after the hyper-parameter cells: the batch sizes are set, the
\* datasets on disk have some size, nothing else has run.
Init ==
    /\ BATCH_SIZE \in 1..MaxBatchSize
    /\ VIRTUAL_BATCH_SIZE \in 1..MaxVirtual
    /\ trainSize \in 1..MaxTrainSize
    /\ testSize \in 1..MaxTestSize
    /\ dataSeed \in 0..MaxSeed
    /\ pc = "data"
    /\ stages = <<>>
    /\ model = <<>>
    /\ InitRest

\* ------------------------------------------------------------ setup cells
Done(stage) == stages' = Append(stages, stage)

\* Cell 4: the datasets and the two loaders.
DataCell ==
    /\ pc = "data"
    /\ pc' = "model"
    /\ Done("data")
    /\ UNCHANGED <<setupVars, modelVars, raised, hasOptimizer, attached,
                   virtual_batch_rate, loopVars, modelMode, optVars, metricVars,
                   reportVars, testVars>>

\* Cell 5: model = models.resnet18(num_classes=10)
ModelCell ==
    /\ pc = "model"
    /\ model' = ResNet18
    /\ pc' = "inspect"
    /\ Done("model")
    /\ UNCHANGED <<setupVars, offending, validated, raised, hasOptimizer, attached,
                   virtual_batch_rate, loopVars, modelMode, optVars, metricVars,
                   reportVars, testVars>>

\* Mutant: the failed validation rewrites the model on its way out.
InspectCell_Rewriting ==
    /\ pc = "inspect"
    /\ model' = convert_batchnorm_modules(model)
    /\ IF validate(model)
         THEN /\ validated' = TRUE
              /\ UNCHANGED <<raised, offending>>
         ELSE /\ raised' = Append(raised, "IncompatibleModuleException")
              /\ offending' = Incompatible(model)
              /\ UNCHANGED validated
    /\ pc' = "convert"
    /\ Done("inspect")
    /\ UNCHANGED <<setupVars, hasOptimizer, attached,
                   virtual_batch_rate, loopVars, modelMode, optVars, metricVars,
                   reportVars, testVars>>

\* Cell 6: inspector.validate(model) on the model as constructed.  The
\* exception ends the cell; the reader goes on to the conversion cell.
InspectCell ==
    /\ pc = "inspect"
    /\ IF validate(model)
         THEN /\ validated' = TRUE
              /\ UNCHANGED <<raised, offending>>
         ELSE /\ raised' = Append(raised, "IncompatibleModuleException")
              /\ offending' = Incompatible(model)
              /\ UNCHANGED validated
    /\ pc' = "convert"
    /\ Done("inspect")
    /\ UNCHANGED <<setupVars, model, hasOptimizer, attached,
                   virtual_batch_rate, loopVars, modelMode, optVars, metricVars,
                   reportVars, testVars>>

\* Mutant: the converter's result is not assigned back to `model`.
ConvertCell_NotAssigned ==
    /\ pc = "convert"
    /\ model' = model
    /\ IF validate(model')
         THEN /\ validated' = TRUE
              /\ pc' = "device"
              /\ Done("convert")
              /\ UNCHANGED <<raised, offending>>
         ELSE /\ raised' = Append(raised, "IncompatibleModuleException")
              /\ offending' = Incompatible(model')
              /\ pc' = "failed"
              /\ UNCHANGED <<validated, stages>>
    /\ UNCHANGED <<setupVars, hasOptimizer, attached,
                   virtual_batch_rate, loopVars, modelMode, optVars, metricVars,
                   reportVars, testVars>>

\* Cell 7: model = convert_batchnorm_modules(model); print(validate(model)).
\* An exception here is not handled by any later cell.
ConvertCell ==
    /\ pc = "convert"
    /\ model' = convert_batchnorm_modules(model)
    /\ IF validate(model')
         THEN /\ validated' = TRUE
              /\ pc' = "device"
              /\ Done("convert")
              /\ UNCHANGED <<raised, offending>>
         ELSE /\ raised' = Append(raised, "IncompatibleModuleException")
              /\ offending' = Incompatible(model')
              /\ pc' = "failed"
              /\ UNCHANGED <<validated, stages>>
    /\ UNCHANGED <<setupVars, hasOptimizer, attached,
                   virtual_batch_rate, loopVars, modelMode, optVars, metricVars,
                   reportVars, testVars>>

\* Cell 8: model = model.to(device)
DeviceCell ==
    /\ pc = "device"
    /\ pc' = "optimizer"
    /\ Done("device")
    /\ UNCHANGED <<setupVars, modelVars, raised, hasOptimizer, attached,
                   virtual_batch_rate, loopVars, modelMode, optVars, metricVars,
                   reportVars, testVars>>

\* Cell 9: optimizer = optim.RMSprop(model.parameters(), lr=LR)
OptimizerCell ==
    /\ pc = "optimizer"
    /\ hasOptimizer' = TRUE
    /\ pc' = "attach"
    /\ Done("optimizer")
    /\ UNCHANGED <<setupVars, modelVars, raised, attached,
                   virtual_batch_rate, loopVars, modelMode, optVars, metricVars,
                   reportVars, testVars>>

\* Mutant: the engine is told the physical batch size.
AttachCell_PhysicalBatch ==
    /\ pc = "attach"
    /\ attached' = TRUE
    /\ steps' = 0
    /\ engineBatch' = BATCH_SIZE
    /\ pc' = "assert"
    /\ Done("attach")
    /\ UNCHANGED <<setupVars, modelVars, raised, hasOptimizer,
                   virtual_batch_rate, loopVars, modelMode, grad, accum, lastAgg,
                   noiseAdds, updates, optCalls, applied, metricVars, reportVars,
                   testVars>>

\* Mutant: the engine is constructed but never attached to the optimizer.
AttachCell_NotAttached ==
    /\ pc = "attach"
    /\ attached' = FALSE
    /\ steps' = 0
    /\ engineBatch' = VIRTUAL_BATCH_SIZE
    /\ pc' = "assert"
    /\ Done("attach")
    /\ UNCHANGED <<setupVars, modelVars, raised, hasOptimizer,
                   virtual_batch_rate, loopVars, modelMode, grad, accum, lastAgg,
                   noiseAdds, updates, optCalls, applied, metricVars, reportVars,
                   testVars>>

\* Cell 11: privacy_engine = PrivacyEngine(model, ...); attach(optimizer)
AttachCell ==
    /\ pc = "attach"
    /\ attached' = TRUE
    /\ steps' = 0
    /\ engineBatch' = VIRTUAL_BATCH_SIZE
    /\ pc' = "assert"
    /\ Done("attach")
    /\ UNCHANGED <<setupVars, modelVars, raised, hasOptimizer,
                   virtual_batch_rate, loopVars, modelMode, grad, accum, lastAgg,
                   noiseAdds, updates, optCalls, applied, metricVars, reportVars,
                   testVars>>

\* Mutant: the assertion is missing.
Divisible_Unchecked == TRUE

\* assert VIRTUAL_BATCH_SIZE % BATCH_SIZE == 0
Divisible == VIRTUAL_BATCH_SIZE % BATCH_SIZE = 0

\* Cell 13: the assertion, then
\*          virtual_batch_rate = int(VIRTUAL_BATCH_SIZE / BATCH_SIZE)
\* (the float quotient of an exact multiple is exact, so int() is \div).
AssertCell ==
    /\ pc = "assert"
    /\ IF Divisible
         THEN /\ virtual_batch_rate' = VIRTUAL_BATCH_SIZE \div BATCH_SIZE
              /\ pc' = "driver"
              /\ Done("assert")
              /\ UNCHANGED raised
         ELSE /\ raised' = Append(raised, "AssertionError")
              /\ pc' = "failed"
              /\ UNCHANGED <<virtual_batch_rate, stages>>
    /\ UNCHANGED <<setupVars, modelVars, hasOptimizer, attached,
                   loopVars, modelMode, optVars, metricVars, reportVars, testVars>>

\* Mutant: zero_grad also drops what the virtual steps have accumulated.
zero_grad_Discarding ==
    /\ grad' = {}
    /\ accum' = {}
    /\ UNCHANGED <<lastAgg, steps, noiseAdds, updates, optCalls, applied, engineBatch>>

\* ------------------------------------------------- the privacy-engine calls
\* optimizer.zero_grad(): clears the current gradient; what virtual steps
\* have accumulated is kept by the engine.
zero_grad ==
    /\ grad' = {}
    /\ UNCHANGED <<accum, lastAgg, steps, noiseAdds, updates, optCalls, applied,
                   engineBatch>>

\* loss.backward(): the gradient of batch k is added to the current gradient.
backward(k) ==
    /\ grad' = grad \cup {k}
    /\ UNCHANGED <<accum, lastAgg, steps, noiseAdds, updates, optCalls, applied,
                   engineBatch>>

\* Mutant: a virtual step that also adds noise and advances the accounting.
virtual_step_Noisy ==
    /\ accum' = accum \cup grad
    /\ optCalls' = optCalls + 1
    /\ noiseAdds' = noiseAdds + 1
    /\ steps' = steps + 1
    /\ UNCHANGED <<grad, lastAgg, updates, applied, engineBatch>>

\* optimizer.virtual_step(): clip and accumulate the current batch only.
virtual_step ==
    /\ accum' = accum \cup grad
    /\ optCalls' = optCalls + 1
    /\ UNCHANGED <<grad, lastAgg, steps, noiseAdds, updates, applied, engineBatch>>

\* The count of real steps per batch, after a real step that aggregated agg.
Counted(cnt, agg) ==
    [k \in DOMAIN cnt \cup agg |->
        (IF k \in DOMAIN cnt THEN cnt[k] ELSE 0) + (IF k \in agg THEN 1 ELSE 0)]

\* optimizer.step(): aggregate what was accumulated with the current batch,
\* add noise, update the parameters, advance the privacy accounting.
step ==
    /\ lastAgg' = accum \cup grad
    /\ applied' = Counted(applied, accum \cup grad)
    /\ UNCHANGED engineBatch
    /\ grad' = accum \cup grad
    /\ accum' = {}
    /\ noiseAdds' = noiseAdds + 1
    /\ updates' = updates + 1
    /\ steps' = steps + 1
    /\ optCalls' = optCalls + 1

\* ------------------------------------------------------------------ train
\* len(train_loader)
TrainLen == LoaderLen(trainSize, BATCH_SIZE)

\* Mutant: the optimizer call is made before loss.backward().
PhaseAfter_StepFirst(p) ==
    CASE p = "fetch" -> "zero_grad"
      [] p = "zero_grad" -> "forward"
      [] p = "forward" -> "step"
      [] p = "step" -> "backward"
      [] p = "backward" -> "report"
      [] p = "report" -> "fetch"

\* The statements of the loop body of train(), in program order: the
\* statement that follows statement p.
PhaseAfter(p) ==
    CASE p = "fetch" -> "zero_grad"
      [] p = "zero_grad" -> "forward"
      [] p = "forward" -> "backward"
      [] p = "backward" -> "step"
      [] p = "step" -> "report"
      [] p = "report" -> "fetch"

\* Mutant: the driver runs one epoch too many.
MoreEpochs_OneMore == epochIdx <= NUM_EPOCHS

\* range(20): the driver has another epoch to run.
MoreEpochs == epochIdx < NUM_EPOCHS

\* for epoch in range(20): train(model, train_loader, optimizer, epoch + 1, device)
\* The call runs train()'s prologue: model.train(), losses = [], top1_acc = [].
TrainCall ==
    /\ pc = "driver"
    /\ MoreEpochs
    /\ trainCalls' = Append(trainCalls, epochIdx + 1)
    /\ modelMode' = "train"
    /\ lossSum' = 0
    /\ lossesLen' = 0
    /\ accSum' = <<0, 1>>
    /\ top1Len' = 0
    /\ i' = 0
    /\ seen' = <<>>
    /\ events' = <<>>
    /\ reportedAt' = {}
    /\ applied' = <<>>
    /\ pc' = "fetch"
    /\ UNCHANGED <<setupVars, modelVars, raised, hasOptimizer, attached, stages,
                   virtual_batch_rate, epochIdx, grad, accum, lastAgg, steps,
                   noiseAdds, updates, optCalls, engineBatch, lastReport, queries,
                   testVars>>

\* for i, (images, target) in enumerate(train_loader): the next batch.
TrainFetch ==
    /\ pc = "fetch"
    /\ i < TrainLen
    /\ seen' = Append(seen, i)
    /\ events' = <<>>
    /\ pc' = PhaseAfter(pc)
    /\ UNCHANGED <<setupVars, modelVars, raised, hasOptimizer, attached, stages,
                   virtual_batch_rate, epochIdx, trainCalls, i, modelMode, optVars,
                   metricVars, reportVars, testVars>>

\* The loader is exhausted: train() returns and the driver advances.
TrainReturn ==
    /\ pc = "fetch"
    /\ i >= TrainLen
    /\ epochIdx' = epochIdx + 1
    /\ pc' = "driver"
    /\ UNCHANGED <<setupVars, modelVars, raised, hasOptimizer, attached, stages,
                   virtual_batch_rate, trainCalls, i, seen, events, modelMode,
                   optVars, metricVars, reportVars, testVars>>

TrainZeroGrad ==
    /\ pc = "zero_grad"
    /\ zero_grad
    /\ events' = Append(events, "zero_grad")
    /\ pc' = PhaseAfter(pc)
    /\ UNCHANGED <<setupVars, modelVars, raised, hasOptimizer, attached, stages,
                   virtual_batch_rate, epochIdx, trainCalls, i, seen, modelMode,
                   metricVars, reportVars, testVars>>

\* output = model(images); loss = criterion(output, target); acc = accuracy(...)
\* losses.append(loss.item()); top1_acc.append(acc)
TrainForward ==
    /\ pc = "forward"
    /\ lossSum' = lossSum + BatchLoss(dataSeed, epochIdx + 1, i)
    /\ lossesLen' = lossesLen + 1
    /\ LET n == BatchLen(trainSize, BATCH_SIZE, i)
       IN accSum' = RatAdd(accSum, accuracy(BatchCorrect(dataSeed, epochIdx + 1, i, n), n))
    /\ top1Len' = top1Len + 1
    /\ events' = events \o <<"forward", "loss">>
    /\ pc' = PhaseAfter(pc)
    /\ UNCHANGED <<setupVars, modelVars, raised, hasOptimizer, attached, stages,
                   virtual_batch_rate, epochIdx, trainCalls, i, seen, modelMode,
                   optVars, reportVars, testVars>>

TrainBackward ==
    /\ pc = "backward"
    /\ backward(i)
    /\ events' = Append(events, "backward")
    /\ pc' = PhaseAfter(pc)
    /\ UNCHANGED <<setupVars, modelVars, raised, hasOptimizer, attached, stages,
                   virtual_batch_rate, epochIdx, trainCalls, i, seen, modelMode,
                   metricVars, reportVars, testVars>>

\* Mutant: the end-of-loader case is forgotten.
IsRealStep_NoTail(k) == (k + 1) % virtual_batch_rate = 0

\* Mutant: the end-of-loader test compares the 0-based index.
IsRealStep_ZeroBasedTail(k) == ((k + 1) % virtual_batch_rate = 0) \/ (k = TrainLen)

\* if ((i + 1) % virtual_batch_rate == 0) or ((i + 1) == len(train_loader)):
IsRealStep(k) == ((k + 1) % virtual_batch_rate = 0) \/ ((k + 1) = TrainLen)

\* optimizer.step() or optimizer.virtual_step()
TrainStep ==
    /\ pc = "step"
    /\ IF IsRealStep(i)
         THEN step /\ events' = Append(events, "step")
         ELSE virtual_step /\ events' = Append(events, "virtual_step")
    /\ pc' = PhaseAfter(pc)
    /\ UNCHANGED <<setupVars, modelVars, raised, hasOptimizer, attached, stages,
                   virtual_batch_rate, epochIdx, trainCalls, i, seen, modelMode,
                   metricVars, reportVars, testVars>>

\* Mutant: the report is keyed on the 1-based index.
ShouldReport_OneBased(k) == (k + 1) % REPORT_EVERY = 0

\* if i % 200 == 0:
ShouldReport(k) == k % REPORT_EVERY = 0

\* The printed line: epoch, np.mean(losses), np.mean(top1_acc), epsilon (a
\* function of the engine's step count).
ReportLine ==
    [epoch |-> trainCalls[Len(trainCalls)], i |-> i, lossSum |-> lossSum,
     lossesLen |-> lossesLen, accSum |-> accSum, top1Len |-> top1Len,
     steps |-> steps]

\* The end of the loop body: the periodic report, then the next index.
TrainReport ==
    /\ pc = "report"
    /\ IF ShouldReport(i)
         THEN /\ queries' = queries + 1
              /\ lastReport' = ReportLine
              /\ reportedAt' = reportedAt \cup {i}
              /\ events' = Append(events, "report")
         ELSE UNCHANGED <<queries, lastReport, reportedAt, events>>
    /\ i' = i + 1
    /\ pc' = PhaseAfter(pc)
    /\ UNCHANGED <<setupVars, modelVars, raised, hasOptimizer, attached, stages,
                   virtual_batch_rate, epochIdx, trainCalls, seen, modelMode,
                   optVars, metricVars, testVars>>

\* range(20) is exhausted: the training cell ends.
DriverDone ==
    /\ pc = "driver"
    /\ ~MoreEpochs
    /\ pc' = "test"
    /\ Done("train")
    /\ UNCHANGED <<setupVars, modelVars, raised, hasOptimizer, attached,
                   virtual_batch_rate, loopVars, modelMode, optVars, metricVars,
                   reportVars, testVars>>

\* ------------------------------------------------------------------- test
\* len(test_loader)
TestLen == LoaderLen(testSize, BATCH_SIZE)

\* top1_acc = test(model, test_loader, device): the prologue of test().
TestCall ==
    /\ pc = "test"
    /\ modelMode' = "eval"
    /\ testCalls' = testCalls + 1
    /\ testIdx' = 0
    /\ testAccSum' = <<0, 1>>
    /\ testCorrect' = 0
    /\ testSeen' = 0
    /\ pc' = "test_loop"
    /\ UNCHANGED <<setupVars, modelVars, raised, hasOptimizer, attached, stages,
                   virtual_batch_rate, loopVars, optVars, metricVars, reportVars,
                   top1_acc>>

\* Mutant: the evaluation loop back-propagates and steps the optimizer.
TestBatch_Training ==
    /\ pc = "test_loop"
    /\ testIdx < TestLen
    /\ LET n == BatchLen(testSize, BATCH_SIZE, testIdx)
       IN \E c \in 0..n :
            /\ testAccSum' = RatAdd(testAccSum, accuracy(c, n))
            /\ testCorrect' = testCorrect + c
            /\ testSeen' = testSeen + n
    /\ testIdx' = testIdx + 1
    /\ step
    /\ UNCHANGED <<setupVars, pc, modelVars, raised, hasOptimizer, attached, stages,
                   virtual_batch_rate, loopVars, modelMode, metricVars,
                   reportVars, testCalls, top1_acc>>

\* One batch of the test loader: acc = accuracy(preds, labels);
\* top1_acc.append(acc).  The batch has n samples, c of them classified
\* correctly.
TestBatch ==
    /\ pc = "test_loop"
    /\ testIdx < TestLen
    /\ LET n == BatchLen(testSize, BATCH_SIZE, testIdx)
       IN \E c \in 0..n :
            /\ testAccSum' = RatAdd(testAccSum, accuracy(c, n))
            /\ testCorrect' = testCorrect + c
            /\ testSeen' = testSeen + n
    /\ testIdx' = testIdx + 1
    /\ UNCHANGED <<setupVars, pc, modelVars, raised, hasOptimizer, attached, stages,
                   virtual_batch_rate, loopVars, modelMode, optVars, metricVars,
                   reportVars, testCalls, top1_acc>>

\* np.mean(top1_acc)
MeanOfBatches == RatDivInt(testAccSum, testIdx)

\* return np.mean(top1_acc)
TestReturn ==
    /\ pc = "test_loop"
    /\ testIdx >= TestLen
    /\ top1_acc' = MeanOfBatches
    /\ pc' = "done"
    /\ Done("test")
    /\ UNCHANGED <<setupVars, modelVars, raised, hasOptimizer, attached,
                   virtual_batch_rate, loopVars, modelMode, optVars, metricVars,
                   reportVars, testIdx, testAccSum, testCorrect, testSeen, testCalls>>

\* ---------------------------------------------------------------- failure
\* Any statement may fail (I/O, device, out of memory).  No cell has a
\* try/except: the exception propagates and the run ends.
Fail ==
    /\ pc \notin {"done", "failed"}
    /\ raised' = Append(raised, "Error")
    /\ pc' = "failed"
    /\ UNCHANGED <<setupVars, stages, modelVars, hasOptimizer, attached,
                   virtual_batch_rate, loopVars, modelMode, optVars, metricVars,
                   reportVars, testVars>>

\* ---------------------------------------------------------- specifications
\* The interpreter runs the next statement.
Run ==
    \/ DataCell
    \/ ModelCell
    \/ InspectCell
    \/ ConvertCell
    \/ DeviceCell
    \/ OptimizerCell
    \/ AttachCell
    \/ AssertCell
    \/ TrainCall
    \/ TrainFetch
    \/ TrainZeroGrad
    \/ TrainForward
    \/ TrainBackward
    \/ TrainStep
    \/ TrainReport
    \/ TrainReturn
    \/ DriverDone
    \/ TestCall
    \/ TestBatch
    \/ TestReturn

Next == Run \/ Fail

Spec == Init /\ [][Next]_vars

\* The interpreter does not stop by itself: while a statement is left to run,
\* it is run (or the run fails).
SpecFair == Spec /\ WF_vars(Next)

\* A run over a loader long enough for the second periodic report of an
\* epoch (iteration REPORT_EVERY) to happen.
InitLong ==
    /\ BATCH_SIZE \in 1..MaxBatchSize
    /\ VIRTUAL_BATCH_SIZE \in 1..MaxVirtual
    /\ trainSize \in (REPORT_EVERY * BATCH_SIZE + 1)..(REPORT_EVERY * BATCH_SIZE + MaxExtra)
    /\ testSize = 1
    /\ dataSeed \in 0..MaxSeed
    /\ pc = "data"
    /\ stages = <<>>
    /\ model = <<>>
    /\ InitRest

SpecLong == InitLong /\ [][Next]_vars

\* The inspector and the converter applied to an arbitrary model: every
\* sequence of at most MaxLayers layers.
Models == UNION {[1..n -> LayerTypes] : n \in 1..MaxLayers}

InitInspect ==
    /\ BATCH_SIZE = 1
    /\ VIRTUAL_BATCH_SIZE = 1
    /\ trainSize = 1
    /\ testSize = 1
    /\ dataSeed = 0
    /\ pc = "inspect"
    /\ stages = <<"data", "model">>
    /\ model \in Models
    /\ InitRest

NextInspect == InspectCell \/ ConvertCell

SpecInspect == InitInspect /\ [][NextInspect]_vars

\* ------------------------------------------------------------------ claims
IsPrefix(a, b) == Len(a) <= Len(b) /\ SubSeq(b, 1, Len(a)) = a

Last(q) == q[Len(q)]

LoopPcs == {"fetch", "zero_grad", "forward", "backward", "step", "report"}

BatchNormLayers(m) == {k \in 1..Len(m) : m[k] = "BatchNorm2d"}

\* C1: once train() has been called, or an optimizer call has been made,
\* VIRTUAL_BATCH_SIZE is a multiple of BATCH_SIZE and virtual_batch_rate is
\* the positive integer with virtual_batch_rate * BATCH_SIZE =
\* VIRTUAL_BATCH_SIZE; a configuration with a remainder never gets there.
C1_VirtualIsMultipleOfPhysical ==
    (pc \in LoopPcs \cup {"driver", "test", "test_loop", "done"}
        \/ trainCalls # <<>> \/ optCalls > 0)
    => /\ VIRTUAL_BATCH_SIZE % BATCH_SIZE = 0
       /\ virtual_batch_rate >= 1
       /\ virtual_batch_rate * BATCH_SIZE = VIRTUAL_BATCH_SIZE

C1_Witness ==
    /\ pc = "step"
    /\ virtual_batch_rate > 1
    /\ BATCH_SIZE > 1

\* C2: the conversion cell, run on a model whose only incompatible layers
\* are BatchNorm layers, ends with validate returning True, no exception
\* raised, and no incompatible layer left in the model.
C2_ConvertedModelValidates ==
    [][(pc = "convert" /\ Incompatible(model) = BatchNormLayers(model))
         => /\ pc' = "device"
            /\ validated'
            /\ raised' = raised
            /\ \A k \in 1..Len(model') : model'[k] \in Compatible
            /\ Len(model') = Len(model)]_vars

C2_Witness ==
    /\ pc = "device"
    /\ validated
    /\ raised = <<"IncompatibleModuleException">>
    /\ \E k \in 1..Len(model) : model[k] = "GroupNorm"

\* C3: validating a model that contains a BatchNorm layer raises
\* IncompatibleModuleException listing the BatchNorm layers, never marks the
\* model valid and leaves the model unchanged; the run goes on after an
\* exception only after that one, raised by the inspection cell, and any
\* other exception ends the run, after which nothing happens.
C3_OnlyValidationFailureIsHandled ==
    /\ [](BatchNormLayers(model) # {} => ~validated)
    /\ [][(pc = "inspect" /\ BatchNormLayers(model) # {} /\ pc' # "failed")
            => /\ raised' = Append(raised, "IncompatibleModuleException")
               /\ BatchNormLayers(model) \subseteq offending'
               /\ offending' = Incompatible(model)
               /\ model' = model
               /\ pc' = "convert"]_vars
    /\ [](pc # "failed" =>
            \/ raised = <<>>
            \/ raised = <<"IncompatibleModuleException">> /\ Last(stages) # "model")
    /\ [][raised' # raised /\ pc # "inspect" => pc' = "failed"]_vars
    /\ [][pc = "failed" => FALSE]_vars

C3_Witness ==
    /\ pc = "convert"
    /\ raised = <<"IncompatibleModuleException">>
    /\ offending # {}
    /\ BatchNormLayers(model) = offending
    /\ ~validated

\* The cells in document order.
CellOrder == <<"data", "model", "inspect", "convert", "device", "optimizer",
               "attach", "assert", "train", "test">>

\* C4: the cells complete in document order; an optimizer call is made only
\* on a validated, converted model with the optimizer constructed and the
\* privacy engine attached; and once train() has been called the model's
\* layers never change.
C4_SetupPrecedesTraining ==
    /\ [](IsPrefix(stages, CellOrder))
    /\ []((optCalls > 0 \/ trainCalls # <<>>) =>
            /\ validated
            /\ hasOptimizer
            /\ attached
            /\ Incompatible(model) = {}
            /\ SubSeq(CellOrder, 1, 8) = SubSeq(stages, 1, 8))
    /\ [][trainCalls # <<>> => model' = model]_vars
    /\ [][model' # model =>
            /\ optCalls' = 0
            /\ trainCalls' = <<>>
            /\ pc \in {"model", "convert"}]_vars

C4_Witness ==
    /\ optCalls > 0
    /\ steps > 0
    /\ attached
    /\ validated

\* C5: a virtual step adds the current batch to the accumulated gradients
\* and adds no noise, updates no parameter and does not advance the privacy
\* accounting; a real step does each of the three once; and nothing else
\* does any of them.
C5_VirtualStepOnlyAccumulates ==
    /\ [][(pc = "step" /\ pc' = "report" /\ Last(events') = "virtual_step")
            => /\ accum' = accum \cup grad
               /\ noiseAdds' = noiseAdds
               /\ updates' = updates
               /\ steps' = steps]_vars
    /\ [][(pc = "step" /\ pc' = "report" /\ Last(events') = "step")
            => /\ noiseAdds' = noiseAdds + 1
               /\ updates' = updates + 1
               /\ steps' = steps + 1]_vars
    /\ [][(noiseAdds' # noiseAdds \/ updates' # updates \/ steps' # steps)
            => (pc = "step" /\ Last(events') = "step")]_vars

C5_Witness ==
    /\ pc = "report"
    /\ Last(events) = "virtual_step"
    /\ accum # {}
    /\ steps > 0

\* C6: in iteration i of an epoch over L batches the optimizer is called
\* exactly once: step() when (i + 1) % (VIRTUAL_BATCH_SIZE / BATCH_SIZE) = 0
\* or i + 1 = L, and virtual_step() otherwise.
C6_StepIffBoundaryOrLast ==
    LET L == LoaderLen(trainSize, BATCH_SIZE)
        rate == VIRTUAL_BATCH_SIZE \div BATCH_SIZE
        calls == SelectSeq(events, LAMBDA e : e \in {"step", "virtual_step"})
        done == (Len(trainCalls) - 1) * L + i
    IN /\ pc \in {"zero_grad", "forward", "backward", "step"} =>
            /\ calls = <<>>
            /\ optCalls = done
       /\ pc = "report" =>
            /\ Len(calls) = 1
            /\ optCalls = done + 1
            /\ (calls[1] = "step") <=> (((i + 1) % rate = 0) \/ (i + 1 = L))
            /\ (calls[1] = "virtual_step") <=> (((i + 1) % rate # 0) /\ (i + 1 # L))

C6_Witness ==
    /\ pc = "report"
    /\ Last(events) = "step"
    /\ (i + 1) % virtual_batch_rate # 0
    /\ i > 0

\* C7: the value returned by test() is the number of correctly classified
\* test samples divided by the number of test samples.
C7_TestReturnsCorrectOverTotal ==
    pc = "done" =>
        /\ testSeen = testSize
        /\ top1_acc = Rat(testCorrect, testSeen)

\* Sum of loss.item() over batches lo..hi of epoch e (by halving, to keep
\* the evaluation shallow).
RECURSIVE SumLoss(_, _, _, _)
SumLoss(seed, e, lo, hi) ==
    IF lo > hi THEN 0
    ELSE IF lo = hi THEN BatchLoss(seed, e, lo)
    ELSE LET mid == (lo + hi) \div 2
         IN SumLoss(seed, e, lo, mid) + SumLoss(seed, e, mid + 1, hi)

\* Sum of the batch accuracies over batches lo..hi of epoch e.
RECURSIVE SumAcc(_, _, _, _)
SumAcc(seed, e, lo, hi) ==
    IF lo > hi THEN <<0, 1>>
    ELSE IF lo = hi
      THEN LET n == BatchLen(trainSize, BATCH_SIZE, lo)
           IN Rat(BatchCorrect(seed, e, lo, n), n)
    ELSE LET mid == (lo + hi) \div 2
         IN RatAdd(SumAcc(seed, e, lo, mid), SumAcc(seed, e, mid + 1, hi))

\* C8: in each call of train() the privacy budget is queried and a line is
\* printed exactly in the iterations i with i % 200 = 0; the line comes last
\* in its iteration, after the step or virtual step; and the printed loss
\* and accuracy are the means over batches 0..i of the current epoch.
C8_ReportEveryTwoHundred ==
    LET L == LoaderLen(trainSize, BATCH_SIZE)
        e == Last(trainCalls)
        perEpoch == ((L - 1) \div REPORT_EVERY) + 1
    IN pc \in LoopPcs =>
        /\ reportedAt = IF i = 0 THEN {}
                        ELSE {k * REPORT_EVERY : k \in 0..((i - 1) \div REPORT_EVERY)}
        /\ queries = (Len(trainCalls) - 1) * perEpoch + Cardinality(reportedAt)
        /\ (pc = "fetch" /\ i > 0 /\ (i - 1) % REPORT_EVERY # 0) =>
                Last(events) \in {"step", "virtual_step"}
        /\ (pc = "fetch" /\ i > 0 /\ (i - 1) % REPORT_EVERY = 0) =>
                /\ Last(events) = "report"
                /\ events[Len(events) - 1] \in {"step", "virtual_step"}
                /\ lastReport.epoch = e
                /\ lastReport.i = i - 1
                /\ lastReport.steps = steps
                /\ lastReport.lossesLen = i
                /\ lastReport.top1Len = i
                /\ lastReport.lossSum = SumLoss(dataSeed, e, 0, i - 1)
                /\ lastReport.accSum = SumAcc(dataSeed, e, 0, i - 1)

C8_Witness ==
    /\ pc = "fetch"
    /\ lastReport.i = REPORT_EVERY
    /\ lastReport.epoch = 2
    /\ i = REPORT_EVERY + 1
    /\ i < LoaderLen(trainSize, BATCH_SIZE)
    /\ Len(events) = 6
    /\ events[5] = "virtual_step"
    /\ lastReport.lossSum > 0

\* C9: within an iteration the calls are zero_grad, forward, loss, backward,
\* then step or virtual_step (then the report, if any), in that order; the
\* optimizer call acts on the gradient of this iteration's backward pass;
\* and the batches are taken one after the other, each iteration finishing
\* before the next batch is fetched.
C9_IterationIsSequential ==
    pc \in LoopPcs \ {"fetch"} =>
        /\ \E x \in {"step", "virtual_step"} :
              IsPrefix(events, <<"zero_grad", "forward", "loss", "backward", x, "report">>)
        /\ Len(events) = CASE pc = "zero_grad" -> 0
                           [] pc = "forward" -> 1
                           [] pc = "backward" -> 3
                           [] pc = "step" -> 4
                           [] pc = "report" -> 5
        /\ seen = [k \in 1..(i + 1) |-> k - 1]
        /\ pc = "step" => grad = {i}
        /\ pc = "report" => i \in (IF events[5] = "step" THEN lastAgg ELSE accum)

C9_Witness ==
    /\ pc = "report"
    /\ events = <<"zero_grad", "forward", "loss", "backward", "virtual_step">>
    /\ i > 0

\* C10: a run that does not fail ends; train() is called with the epoch
\* numbers 1, 2, ..., 20 in this order and no others; each call fetches every
\* batch of the loader once, in order, and returns; test() is called once,
\* after the twentieth epoch.
C10_TwentyEpochsThenTest ==
    LET epochs == [k \in 1..NUM_EPOCHS |-> k]
        L == LoaderLen(trainSize, BATCH_SIZE)
    IN /\ <>(pc = "done" \/ pc = "failed")
       /\ [](IsPrefix(trainCalls, epochs))
       /\ [](pc = "driver" => /\ epochIdx = Len(trainCalls)
                              /\ trainCalls # <<>> => seen = [k \in 1..L |-> k - 1])
       /\ [](testCalls > 0 => /\ testCalls = 1
                              /\ trainCalls = epochs
                              /\ pc \in {"test_loop", "done", "failed"})
       /\ [](pc = "done" => /\ trainCalls = epochs
                            /\ testCalls = 1
                            /\ top1_acc # <<>>
                            /\ "Error" \notin {raised[k] : k \in 1..Len(raised)})

C10_Witness ==
    /\ pc = "done"
    /\ Len(trainCalls) = NUM_EPOCHS
    /\ testCalls = 1
    /\ LoaderLen(trainSize, BATCH_SIZE) > 1

\* C11: the last iteration of every call of train() takes a real step, so
\* when train() returns (and when the next call starts, and during and after
\* test()) no gradient accumulated by virtual steps is pending.
C11_NothingPendingAtEpochEnd ==
    LET L == LoaderLen(trainSize, BATCH_SIZE)
    IN /\ (pc = "report" /\ i + 1 = L) =>
            /\ events[5] = "step"
            /\ accum = {}
            /\ (L - 1) \in lastAgg
       /\ (pc = "fetch" /\ (i = 0 \/ i = L)) => accum = {}
       /\ (pc = "driver" /\ trainCalls # <<>>) =>
            /\ accum = {}
            /\ events[5] = "step"
            /\ (L - 1) \in lastAgg
       /\ pc \in {"test", "test_loop", "done"} => accum = {}

C11_Witness ==
    /\ pc = "driver"
    /\ Len(trainCalls) > 1
    /\ LoaderLen(trainSize, BATCH_SIZE) % virtual_batch_rate # 0
    /\ LoaderLen(trainSize, BATCH_SIZE) > virtual_batch_rate
    /\ virtual_batch_rate > 1
    /\ accum = {}

\* The batches whose iteration has made its optimizer call, in this call of
\* train().
Stepped ==
    IF pc \in {"report", "fetch", "driver"}
      THEN 0..Len(seen) - 1
      ELSE 0..Len(seen) - 2

\* C12: every batch of an epoch is aggregated by exactly one real step: after
\* its iteration's optimizer call a batch is either pending (accumulated by
\* a virtual step) or was aggregated by one real step, never both and never
\* twice; zero_grad at the top of an iteration leaves the pending batches
\* pending; and when train() returns every batch was aggregated once.
C12_EachBatchInExactlyOneStep ==
    (pc \in LoopPcs \cup {"driver"} /\ trainCalls # <<>>) =>
        /\ \A k \in DOMAIN applied : applied[k] = 1
        /\ accum \cap DOMAIN applied = {}
        /\ accum \cup DOMAIN applied = Stepped
        /\ pc = "driver" =>
              applied = [k \in 0..LoaderLen(trainSize, BATCH_SIZE) - 1 |-> 1]

C12_Witness ==
    /\ pc = "forward"
    /\ Cardinality(accum) = 2
    /\ grad = {}
    /\ Len(trainCalls) > 1

\* The number of samples in a set of physical batches of the train loader.
RECURSIVE SamplesIn(_)
SamplesIn(agg) ==
    IF agg = {} THEN 0
    ELSE LET k == CHOOSE x \in agg : TRUE
         IN BatchLen(trainSize, BATCH_SIZE, k) + SamplesIn(agg \ {k})

\* ceil(L / virtual_batch_rate)
StepsPerEpoch ==
    (LoaderLen(trainSize, BATCH_SIZE) + virtual_batch_rate - 1) \div virtual_batch_rate

\* C13: every real optimizer step aggregates at most virtual_batch_rate
\* physical batches, that is at most VIRTUAL_BATCH_SIZE samples, the batch_size
\* declared to the PrivacyEngine; a real step that is not the last of its epoch
\* aggregates exactly virtual_batch_rate batches (the consecutive ones ending at
\* the current index); and an epoch over a loader of L batches takes
\* ceil(L / virtual_batch_rate) real steps.
C13_RealStepWithinVirtualBatch ==
    LET L == LoaderLen(trainSize, BATCH_SIZE)
        rate == virtual_batch_rate
    IN /\ (pc = "report" /\ events[5] = "step") =>
            /\ Cardinality(lastAgg) <= rate
            /\ SamplesIn(lastAgg) <= VIRTUAL_BATCH_SIZE
            /\ SamplesIn(lastAgg) <= engineBatch
            /\ engineBatch = VIRTUAL_BATCH_SIZE
            /\ lastAgg = (i - Cardinality(lastAgg) + 1)..i
            /\ (i + 1 # L) => /\ Cardinality(lastAgg) = rate
                              /\ SamplesIn(lastAgg) = VIRTUAL_BATCH_SIZE
            /\ (i + 1 = L) => Cardinality(lastAgg) = IF L % rate = 0 THEN rate ELSE L % rate
            /\ steps = (Len(trainCalls) - 1) * StepsPerEpoch + ((i + rate) \div rate)
       /\ (pc = "driver" /\ trainCalls # <<>>) => steps = Len(trainCalls) * StepsPerEpoch

C13_Witness ==
    /\ pc = "report"
    /\ events[5] = "step"
    /\ i + 1 = LoaderLen(trainSize, BATCH_SIZE)
    /\ virtual_batch_rate = 2
    /\ Cardinality(lastAgg) = 1
    /\ steps = 4
    /\ Len(trainCalls) = 2

\* What training has built: the model's layers and parameter updates, the
\* current and the accumulated gradients, the engine's counters, and the
\* record of the training calls made.
TrainingState ==
    <<model, updates, grad, accum, lastAgg, applied, steps, noiseAdds, optCalls,
      engineBatch, attached, events, trainCalls, epochIdx>>

\* C14: evaluation has no effect on training state.  No step of test() calls
\* optimizer.step(), optimizer.virtual_step(), zero_grad() or backward(): the
\* model's layers and parameter updates, the current and the accumulated
\* gradients, the optimizer-call count and the privacy engine's step count
\* (hence the spent budget) are the same after every step of test() as
\* before it, and so the same after test() as before it.
C14_TestLeavesTrainingState ==
    [][(pc \in {"test", "test_loop"}) => UNCHANGED TrainingState]_vars

C14_Witness ==
    /\ pc = "done"
    /\ testCalls = 1
    /\ testIdx > 1
    /\ Len(trainCalls) = NUM_EPOCHS
    /\ updates = NUM_EPOCHS * StepsPerEpoch
    /\ steps = updates
    /\ virtual_batch_rate > 1
    /\ optCalls > steps
    /\ grad # {}
    /\ accum = {}
    /\ modelMode = "eval"

====
